---------------------------- MODULE Spec2Model ----------------------------
(***************************************************************************)
(* Model of the payment orchestrator (orchestrator.js): decide,            *)
(* supportsMethod, evaluateProcessor and feeAmountCents, over the          *)
(* module-level configuration (processors.json, rules.json).               *)
(*                                                                         *)
(* Numbers.  JavaScript numbers are modelled as exact rationals with a     *)
(* fixed unit per field:                                                   *)
(*   fee_percentage                      in 1/PctDen                       *)
(*   success_rate, rule_thresholds.*     in 1/RateDen                      *)
(*   merchant.cash_flow_sensitivity      in 1/SensDen                      *)
(*   scoring_weights.*                   in 1/WDen                         *)
(* and NaN / +-Infinity are explicit values.  A JavaScript object is a     *)
(* record; an absent property is an absent record field.                   *)
(***************************************************************************)
EXTENDS Integers, Sequences, FiniteSets, TLC

VARIABLES processors, rules, implPick, last, loaded, feeCall

vars == <<processors, rules, implPick, last, loaded, feeCall>>

---------------------------------------------------------------------------
(* Bounds of the model *)

MaxProcs == 3      \* longest processor catalog
MaxAmount == 60    \* largest amount_cents passed to feeAmountCents directly

(* Units of the number representation *)

PctDen == 1000
RateDen == 200
SensDen == 20
WDen == 2

None == [kind |-> "none"]

---------------------------------------------------------------------------
(* Number helpers *)

Max(a, b) == IF a >= b THEN a ELSE b
Min(a, b) == IF a <= b THEN a ELSE b
Sign(a) == IF a > 0 THEN 1 ELSE IF a < 0 THEN -1 ELSE 0
Abs(a) == IF a < 0 THEN -a ELSE a

MathRoundTruncating(num, den) == num \div den

(* Math.round on the rational num/den (den > 0): the integer nearest to    *)
(* it, a half rounding towards +Infinity, i.e. floor(x + 1/2).             *)
MathRound(num, den) == (2 * num + den) \div (2 * den)

RECURSIVE GCD(_, _)
GCD(a, b) == IF b = 0 THEN a ELSE GCD(b, a % b)

LCM(a, b) == (a \div GCD(a, b)) * b

(* A JavaScript number that may be NaN or infinite: num/den in lowest      *)
(* terms (den > 0) when finite.                                            *)
Fin(num, den) ==
  LET g == GCD(Abs(num), den)
  IN [kind |-> "num", num |-> num \div g, den |-> den \div g]
NaN == [kind |-> "NaN", num |-> 0, den |-> 1]
PosInf == [kind |-> "Infinity", num |-> 0, den |-> 1]
NegInf == [kind |-> "-Infinity", num |-> 0, den |-> 1]

(* a / b on integers, as IEEE-754 division defines it for b = 0 *)
JsDiv(a, b) ==
  IF b # 0 THEN Fin(a * Sign(b), Abs(b))
  ELSE IF a = 0 THEN NaN
  ELSE IF a > 0 THEN PosInf ELSE NegInf

(* Math.max(0, x) *)
JsMax0(x) ==
  CASE x.kind = "NaN" -> NaN
    [] x.kind = "Infinity" -> PosInf
    [] x.kind = "-Infinity" -> Fin(0, 1)
    [] OTHER -> IF x.num >= 0 THEN x ELSE Fin(0, x.den)

(* x >= t/RateDen ; any comparison with NaN or undefined is false *)
JsGeThreshold(x, obj, field) ==
  IF field \notin DOMAIN obj THEN FALSE
  ELSE CASE x.kind = "NaN" -> FALSE
         [] x.kind = "Infinity" -> TRUE
         [] x.kind = "-Infinity" -> FALSE
         [] OTHER -> x.num * RateDen >= obj[field] * x.den

(* obj.field used as a number: undefined converts to NaN *)
JsField(obj, field) ==
  IF field \in DOMAIN obj THEN Fin(obj[field], 1) ELSE NaN

(* w * x, w finite or NaN; Infinity * 0 is NaN *)
JsMul(w, x) ==
  CASE w.kind = "NaN" \/ x.kind = "NaN" -> NaN
    [] x.kind = "num" -> Fin(w.num * x.num, w.den * x.den)
    [] OTHER -> IF w.num = 0 THEN NaN
                ELSE IF (w.num > 0) = (x.kind = "Infinity") THEN PosInf
                ELSE NegInf

(* x + y *)
JsAdd(x, y) ==
  CASE x.kind = "NaN" \/ y.kind = "NaN" -> NaN
    [] x.kind = "num" /\ y.kind = "num" ->
         Fin(x.num * y.den + y.num * x.den, x.den * y.den)
    [] x.kind = "num" -> y
    [] y.kind = "num" -> x
    [] OTHER -> IF x.kind = y.kind THEN x ELSE NaN

JsNeg(x) ==
  CASE x.kind = "num" -> Fin(-x.num, x.den)
    [] x.kind = "Infinity" -> NegInf
    [] x.kind = "-Infinity" -> PosInf
    [] OTHER -> NaN

(* the sign of x - y when both are finite; NaN otherwise (reported as 2) *)
JsCompare(x, y) ==
  CASE x.kind = "NaN" \/ y.kind = "NaN" -> 2
    [] x.kind = "num" /\ y.kind = "num" ->
         LET l == LCM(x.den, y.den)
         IN Sign(x.num * (l \div x.den) - y.num * (l \div y.den))
    [] x.kind = y.kind -> 2
    [] x.kind = "Infinity" \/ y.kind = "-Infinity" -> 1
    [] OTHER -> -1

---------------------------------------------------------------------------
(* orchestrator.js *)

(* processor.field || 0 *)
OrZero(obj, field) ==
  IF field \in DOMAIN obj THEN obj[field] ELSE 0

Truthy(obj, field) ==
  field \in DOMAIN obj /\ obj[field] = TRUE

feeAmountCents(processor, payment) ==
  LET pct == OrZero(processor, "fee_percentage")
      flat == OrZero(processor, "fee_flat_cents")
  IN MathRound(payment.amount_cents * pct + flat * PctDen, PctDen)

(* a supportsMethod that does not look at the method *)
supportsEitherMethod(processor, method) ==
  Truthy(processor, "supports_card") \/ Truthy(processor, "supports_ach")

supportsMethod(processor, method) ==
  IF method = "card" THEN Truthy(processor, "supports_card")
  ELSE IF method = "ach" THEN Truthy(processor, "supports_ach")
  ELSE FALSE

(* processors.find(p => p.name === "Stripe"): the first such entry *)
HasStripe(catalog) == \E i \in 1..Len(catalog) : catalog[i].name = "Stripe"

FindStripe(catalog) ==
  catalog[CHOOSE i \in 1..Len(catalog) :
            /\ catalog[i].name = "Stripe"
            /\ \A j \in 1..(i - 1) : catalog[j].name # "Stripe"]

PassesStrictNoWhitelist(processor, payment, rls) ==
  /\ "min_success_rate" \in DOMAIN rls.rule_thresholds
  /\ processor.success_rate >= rls.rule_thresholds.min_success_rate

PassesStrictNoMinRate(processor, payment, rls) ==
  \/ ~Truthy(processor, "requires_whitelist")
  \/ /\ "whitelisted_for" \in DOMAIN payment.merchant
     /\ processor.name \in payment.merchant.whitelisted_for

(* the strict checks of evaluateProcessor, as the truth value filter() sees *)
PassesStrict(processor, payment, rls) ==
  /\ "min_success_rate" \in DOMAIN rls.rule_thresholds
  /\ processor.success_rate >= rls.rule_thresholds.min_success_rate
  /\ \/ ~Truthy(processor, "requires_whitelist")
     \/ /\ "whitelisted_for" \in DOMAIN payment.merchant
        /\ processor.name \in payment.merchant.whitelisted_for

(* evaluateProcessor; the catalog holds a processor named "Stripe" *)
evaluateProcessor(processor, payment, catalog, rls) ==
  LET fee == feeAmountCents(processor, payment)
      stripe == FindStripe(catalog)
      stripeFee == feeAmountCents(stripe, payment)
      saving_pct_vs_stripe == JsDiv(stripeFee - fee, stripeFee)
      sens == payment.merchant.cash_flow_sensitivity
      settlement_factor ==
        Max(0, 5 * SensDen - processor.settlement_time_days * sens)
      settlement_score ==
        Fin(Min(5 * SensDen, Max(0, settlement_factor)), 5 * SensDen)
      risk_score == Fin(processor.success_rate, RateDen)
      w == rls.scoring_weights
      W(field) == JsMul(JsField(w, field), Fin(1, WDen))
      bonus0 == Fin(0, 1)
      bonus1 ==
        IF JsGeThreshold(saving_pct_vs_stripe, rls.rule_thresholds,
                         "min_relative_savings_to_switch")
        THEN JsAdd(bonus0, W("switch_bonus")) ELSE bonus0
      bonus2 ==
        IF Truthy(processor, "instant_payout")
        THEN JsAdd(bonus1, W("instant_payout_bonus")) ELSE bonus1
      bonus ==
        IF sens * 100 > 85 * SensDen /\ processor.settlement_time_days > 1
        THEN JsAdd(bonus2, JsNeg(W("slow_settlement_penalty"))) ELSE bonus2
      score ==
        JsAdd(JsAdd(JsAdd(
          JsMul(W("fee_weight"), JsMax0(saving_pct_vs_stripe)),
          JsMul(W("settlement_weight"), settlement_score)),
          JsMul(W("risk_weight"), risk_score)),
          bonus)
  IN [processor |-> processor,
      fee_cents |-> fee,
      saving_pct_vs_stripe |-> saving_pct_vs_stripe,
      settlement_score |-> settlement_score,
      risk_score |-> risk_score,
      score |-> score,
      passesStrict |-> PassesStrict(processor, payment, rls)]

(* Number.prototype.toFixed(3): the number in thousandths, a half rounding *)
(* away from zero; "NaN" and "Infinity" are printed as such.               *)
ToFixed3(x) ==
  IF x.kind = "num"
  THEN [kind |-> "num",
        milli |-> Sign(x.num) * MathRound(Abs(x.num) * 1000, x.den)]
  ELSE [kind |-> x.kind, milli |-> 0]

FallbackCmpAscending(a, b) ==
  Sign(a.processor.success_rate - b.processor.success_rate)

(* (a,b) => b.processor.success_rate - a.processor.success_rate *)
FallbackCmp(a, b) == Sign(b.processor.success_rate - a.processor.success_rate)

(* (a,b) => b.score - a.score ; a NaN difference counts as 0 *)
ScoreCmp(a, b) ==
  LET c == JsCompare(b.score, a.score)
  IN IF c = 2 THEN 0 ELSE c

(* the comparefn passed to sort, by the key it compares *)
Compare(cmp, a, b) ==
  IF cmp = "success_rate" THEN FallbackCmp(a, b) ELSE ScoreCmp(a, b)

(* Array.prototype.sort(comparefn)                                         *)
(* The comparator's result v is used as ToNumber(v), NaN counting as 0.    *)
(* For a consistent comparator the sort is stable (ECMAScript 2019).  For  *)
(* an inconsistent one the order is implementation-defined: the build      *)
(* (implPick) decides which element ends up first.                         *)

(* the comparator's results over the positions of arr *)
CompareAll(arr, cmp) ==
  [i \in 1..Len(arr), j \in 1..Len(arr) |-> Compare(cmp, arr[i], arr[j])]

(* c is the table of the comparator's results over n positions *)
Consistent(c, n) ==
  \A i, j \in 1..n :
    /\ c[i, i] = 0
    /\ c[i, j] = -c[j, i]
    /\ \A k \in 1..n :
         /\ (c[i, j] = 0 /\ c[j, k] = 0) => c[i, k] = 0
         /\ (c[i, j] < 0 /\ c[j, k] < 0) => c[i, k] < 0
         /\ (c[i, j] > 0 /\ c[j, k] > 0) => c[i, k] > 0

StableSort(arr, c) ==
  LET n == Len(arr)
      Before(i) == {j \in 1..n : c[j, i] < 0 \/ (c[j, i] = 0 /\ j < i)}
  IN [k \in 1..n |->
        arr[CHOOSE i \in 1..n : Cardinality(Before(i)) = k - 1]]

Rotate(arr, k) ==
  LET n == Len(arr)
  IN [i \in 1..n |-> arr[((i - 1 + k - 1) % n) + 1]]

SortWith(arr, c) ==
  IF Len(arr) <= 1 THEN arr
  ELSE IF Consistent(c, Len(arr)) THEN StableSort(arr, c)
  ELSE Rotate(arr, implPick)

ArraySort(arr, cmp) ==
  CHOOSE sorted \in {SortWith(arr, c) : c \in {CompareAll(arr, cmp)}} : TRUE

TypeError(where) == [kind |-> "error", error |-> "TypeError", at |-> where]

ExpectedNetCentsFlatOnly(processor, payment) ==
  MathRound(payment.amount_cents - OrZero(processor, "fee_flat_cents"), 1)

(* Math.round(payment.amount_cents - feeAmountCents(processor, payment)) *)
ExpectedNetCents(processor, payment) ==
  MathRound(payment.amount_cents - feeAmountCents(processor, payment), 1)

FallbackReason ==
  [text |-> "No candidate passed strict constraints - falling back to highest success_rate",
   score |-> [kind |-> "none", milli |-> 0]]

ScoringReason(score) ==
  [text |-> "Selected by scoring rules (score=)", score |-> ToFixed3(score)]

(* decide, from step 3 on: the choice among the evaluations *)
Select(evaluations, payment) ==
  LET Passes(e) == e.passesStrict
      viable == SelectSeq(evaluations, Passes)
  IN IF Len(viable) = 0
     THEN LET fallback == ArraySort(evaluations, "success_rate")[1]
          IN [kind |-> "decision",
              chosen |-> fallback.processor.name,
              expected_net_cents |->
                ExpectedNetCents(fallback.processor, payment),
              details |-> fallback,
              reason |-> FallbackReason]
     ELSE LET winner == ArraySort(viable, "score")[1]
          IN [kind |-> "decision",
              chosen |-> winner.processor.name,
              expected_net_cents |->
                ExpectedNetCents(winner.processor, payment),
              details |-> winner,
              reason |-> ScoringReason(winner.score)]

(* decide(payment) over the module-level catalog and rules *)
decide(payment, catalog, rls) ==
  LET Supports(p) == supportsMethod(p, payment.payment_method)
      candidates == SelectSeq(catalog, Supports)
      \* candidates.map(..): a new array, one evaluation per candidate
      evaluations ==
        [i \in 1..Len(candidates) |->
           evaluateProcessor(candidates[i], payment, catalog, rls)]
  IN IF candidates = <<>>
     THEN \* evaluations = [] ; [].sort(..)[0] is undefined
          TypeError("decide: fallback.processor")
     ELSE IF ~HasStripe(catalog)
     THEN \* stripe is undefined in the first evaluateProcessor call
          TypeError("feeAmountCents: processor.fee_percentage")
     ELSE CHOOSE decision \in {Select(evs, payment) : evs \in {evaluations}} :
            TRUE

---------------------------------------------------------------------------
(* Configurations and requests the model draws from *)

Stripe ==
  [name |-> "Stripe", fee_percentage |-> 20, fee_flat_cents |-> 30,
   settlement_time_days |-> 2, success_rate |-> 196,
   supports_card |-> TRUE, supports_ach |-> TRUE, instant_payout |-> FALSE]

(* a baseline that charges nothing *)
StripeFree ==
  [name |-> "Stripe", fee_percentage |-> 0, fee_flat_cents |-> 0,
   settlement_time_days |-> 2, success_rate |-> 196,
   supports_card |-> TRUE, supports_ach |-> TRUE, instant_payout |-> FALSE]

LocalProcessorA ==
  [name |-> "LocalProcessorA", fee_percentage |-> 25, fee_flat_cents |-> 25,
   settlement_time_days |-> 1, success_rate |-> 193,
   supports_card |-> TRUE, supports_ach |-> FALSE, instant_payout |-> FALSE]

ACHProvider ==
  [name |-> "ACHProvider", fee_percentage |-> 8, fee_flat_cents |-> 25,
   settlement_time_days |-> 3, success_rate |-> 198,
   supports_card |-> FALSE, supports_ach |-> TRUE, instant_payout |-> FALSE]

GatedFast ==
  [name |-> "GatedFast", fee_percentage |-> 10, fee_flat_cents |-> 10,
   settlement_time_days |-> 0, success_rate |-> 198,
   supports_card |-> TRUE, supports_ach |-> TRUE, instant_payout |-> TRUE,
   requires_whitelist |-> TRUE]

ProcessorPool ==
  {Stripe, StripeFree, LocalProcessorA, ACHProvider, GatedFast}

(* catalogs: up to MaxProcs processors with unique names, in any order *)
Catalogs ==
  {c \in UNION {[1..n -> ProcessorPool] : n \in 0..MaxProcs} :
     \A i, j \in 1..Len(c) : c[i].name = c[j].name => i = j}

DefaultRules ==
  [rule_thresholds |->
     [min_relative_savings_to_switch |-> 4, min_success_rate |-> 180],
   scoring_weights |->
     [fee_weight |-> 20, settlement_weight |-> 8, risk_weight |-> 12,
      switch_bonus |-> 3, instant_payout_bonus |-> 2,
      slow_settlement_penalty |-> 4]]

(* min_success_rate raised to 0.99: above Stripe and LocalProcessorA *)
StrictRules ==
  [DefaultRules EXCEPT !.rule_thresholds.min_success_rate = 198]

(* min_success_rate raised to 0.995: above every processor of the pool *)
StricterRules ==
  [DefaultRules EXCEPT !.rule_thresholds.min_success_rate = 199]

Without(obj, field) == [f \in DOMAIN obj \ {field} |-> obj[f]]

ThresholdFields == {"min_relative_savings_to_switch", "min_success_rate"}

WeightFields ==
  {"fee_weight", "settlement_weight", "risk_weight", "switch_bonus",
   "instant_payout_bonus", "slow_settlement_penalty"}

(* one weight every score uses, one only slow processors use *)
DroppedWeights == {"fee_weight", "slow_settlement_penalty"}

RulesPool ==
  {DefaultRules, StrictRules, StricterRules}
  \cup {[DefaultRules EXCEPT
           !.rule_thresholds = Without(DefaultRules.rule_thresholds, f)] :
        f \in ThresholdFields}
  \cup {[DefaultRules EXCEPT
           !.scoring_weights = Without(DefaultRules.scoring_weights, f)] :
        f \in DroppedWeights}

Merchants ==
  {[id |-> "m_1", cash_flow_sensitivity |-> s] : s \in {14, 18}}
  \cup {[id |-> "m_1", cash_flow_sensitivity |-> s,
         whitelisted_for |-> {"GatedFast"}] : s \in {14, 18}}

PlainMerchant == [id |-> "m_1", cash_flow_sensitivity |-> 14]

(* requests of 12.50 by card and ach from every merchant, and by wire and  *)
(* of nothing from a merchant without a whitelist                          *)
Payments ==
  {[amount_cents |-> 1250, currency |-> "usd", payment_method |-> m,
    merchant |-> mr, metadata |-> <<>>] :
     m \in {"card", "ach"}, mr \in Merchants}
  \cup
  {[amount_cents |-> 1250, currency |-> "usd", payment_method |-> "wire",
    merchant |-> PlainMerchant, metadata |-> <<>>]}
  \cup
  {[amount_cents |-> 0, currency |-> "usd", payment_method |-> m,
    merchant |-> PlainMerchant, metadata |-> <<>>] : m \in {"card", "ach"}}

---------------------------------------------------------------------------
(* The service *)

Init ==
  /\ processors \in Catalogs
  /\ rules \in RulesPool
  /\ implPick \in 1..MaxProcs
  /\ loaded = [processors |-> processors, rules |-> rules]
  /\ last = None
  /\ feeCall = None

(* a decide that sorts the module-level catalog itself *)
DecideSortingCatalog(payment) ==
  /\ last' = [kind |-> "call", payment |-> payment,
              result |-> decide(payment, processors, rules)]
  /\ processors' =
       LET boxed == [i \in 1..Len(processors) |->
                       [processor |-> processors[i]]]
           sorted == StableSort(boxed, CompareAll(boxed, "success_rate"))
       IN [i \in 1..Len(processors) |-> sorted[i].processor]
  /\ UNCHANGED <<rules, implPick, loaded, feeCall>>

(* one call of decide(payment) *)
Decide(payment) ==
  /\ last' = [kind |-> "call", payment |-> payment,
              result |-> decide(payment, processors, rules)]
  /\ UNCHANGED <<processors, rules, implPick, loaded, feeCall>>

Next == \E payment \in Payments : Decide(payment)

Spec == Init /\ [][Next]_vars

---------------------------------------------------------------------------
(* feeAmountCents called on its own (it is exported by the module) *)

FeePcts == {0, 8, 20, 25, 29, 500}
FeeFlats == {0, 10, 25, 30}

FeeProcessors ==
  {[name |-> "P"]}
  \cup {[name |-> "P", fee_percentage |-> p] : p \in FeePcts}
  \cup {[name |-> "P", fee_flat_cents |-> f] : f \in FeeFlats}
  \cup {[name |-> "P", fee_percentage |-> p, fee_flat_cents |-> f] :
          p \in FeePcts, f \in FeeFlats}

FeePayments ==
  {[amount_cents |-> a, currency |-> "usd", payment_method |-> "card",
    merchant |-> [id |-> "m_default", cash_flow_sensitivity |-> 10],
    metadata |-> <<>>] : a \in 0..MaxAmount}

FeeInit ==
  /\ processors = <<Stripe>>
  /\ rules = DefaultRules
  /\ implPick = 1
  /\ loaded = [processors |-> processors, rules |-> rules]
  /\ last = None
  /\ feeCall = None

FeeAmountCall(processor, payment) ==
  /\ feeCall' = [kind |-> "call", processor |-> processor,
                 payment |-> payment,
                 fee |-> feeAmountCents(processor, payment)]
  /\ UNCHANGED <<processors, rules, implPick, loaded, last>>

FeeNext ==
  \E processor \in FeeProcessors, payment \in FeePayments :
    FeeAmountCall(processor, payment)

FeeSpec == FeeInit /\ [][FeeNext]_vars

---------------------------------------------------------------------------
(* Vocabulary of the properties *)

Called == last.kind = "call"
Decided == Called /\ last.result.kind = "decision"
OnScoringPath == Decided /\ last.result.reason.score.kind # "none"
OnFallbackPath == Decided /\ last.result.reason = FallbackReason

(* catalog positions of the processors that support the method *)
CandidateIdx ==
  {i \in 1..Len(processors) :
     supportsMethod(processors[i], last.payment.payment_method)}

NotWhitelisted(p, payment) ==
  /\ "requires_whitelist" \in DOMAIN p
  /\ p.requires_whitelist
  /\ \/ "whitelisted_for" \notin DOMAIN payment.merchant
     \/ p.name \notin payment.merchant.whitelisted_for

(* catalog positions of the candidates that meet both strict constraints *)
ViableIdx ==
  {i \in CandidateIdx :
     /\ "min_success_rate" \in DOMAIN rules.rule_thresholds
     /\ processors[i].success_rate >= rules.rule_thresholds.min_success_rate
     /\ ~NotWhitelisted(processors[i], last.payment)}

ScoreAt(i) ==
  evaluateProcessor(processors[i], last.payment, processors, rules).score

(* score of i strictly greater than score of j (false when either is NaN) *)
ScoreGreater(i, j) == JsCompare(ScoreAt(i), ScoreAt(j)) = 1
ScoreEqual(i, j) == JsCompare(ScoreAt(i), ScoreAt(j)) = 0

RulesComplete ==
  /\ ThresholdFields \subseteq DOMAIN rules.rule_thresholds
  /\ WeightFields \subseteq DOMAIN rules.scoring_weights

BaselineFee == feeAmountCents(FindStripe(processors), last.payment)

(* a configuration with the baseline, all rule fields and a baseline fee   *)
(* other than 0 for the payment                                            *)
Healthy == HasStripe(processors) /\ RulesComplete /\ BaselineFee # 0

---------------------------------------------------------------------------
(* C1 (as stated): in every decision, a processor that requires a          *)
(* whitelist and is not in merchant.whitelisted_for is never the chosen    *)
(* processor.  Stated over healthy configurations.                         *)
C1_NeverChosenUnlessWhitelisted ==
  (Decided /\ Healthy) =>
    \A i \in 1..Len(processors) :
      NotWhitelisted(processors[i], last.payment)
        => last.result.chosen # processors[i].name

(* C1 (amended): in every decision selected by scoring, a processor that   *)
(* requires a whitelist and is not in merchant.whitelisted_for is never    *)
(* the chosen processor, whatever its score.                               *)
C1_ScoringNeverChoosesUnwhitelisted ==
  OnScoringPath =>
    \A i \in 1..Len(processors) :
      NotWhitelisted(processors[i], last.payment)
        => last.result.chosen # processors[i].name

(* a scoring decision that passed over a gated candidate whose score is    *)
(* strictly above the chosen processor's                                   *)
C1_Witness ==
  /\ OnScoringPath
  /\ Healthy
  /\ \E i \in CandidateIdx :
       /\ NotWhitelisted(processors[i], last.payment)
       /\ JsCompare(ScoreAt(i), last.result.details.score) = 1
       /\ \A j \in CandidateIdx : ~ScoreGreater(j, i)

(* C2: when no processor supports the payment method, decide fails with a  *)
(* NoEligibleProcessorError; when candidates exist and none passes the     *)
(* strict constraints it returns a fallback decision.                      *)
C2_NoEligibleProcessorError ==
  Called =>
    /\ CandidateIdx = {} =>
         /\ last.result.kind = "error"
         /\ last.result.error = "NoEligibleProcessorError"
    /\ (CandidateIdx # {} /\ ViableIdx = {} /\ HasStripe(processors)) =>
         OnFallbackPath

(* C3 (as stated): when some processor supports the method and no          *)
(* candidate passes the strict constraints, decide returns the first       *)
(* candidate of maximum success_rate and the fallback reason.  Stated over *)
(* complete rule configurations.                                           *)
C3_FallbackWheneverNoneViable ==
  (Called /\ RulesComplete /\ CandidateIdx # {} /\ ViableIdx = {}) =>
    /\ OnFallbackPath
    /\ \E i \in CandidateIdx :
         /\ last.result.chosen = processors[i].name
         /\ \A j \in CandidateIdx :
              /\ processors[j].success_rate <= processors[i].success_rate
              /\ j < i => processors[j].success_rate < processors[i].success_rate

(* C3 (amended): when the catalog holds the baseline "Stripe", some        *)
(* processor supports the method and no candidate passes the strict        *)
(* constraints, decide returns as chosen the candidate of maximum          *)
(* success_rate, the first of the catalog among equals, with the fallback  *)
(* reason.                                                                 *)
C3_FallbackFirstMaxSuccessRate ==
  (Called /\ HasStripe(processors) /\ CandidateIdx # {} /\ ViableIdx = {}) =>
    /\ OnFallbackPath
    /\ \E i \in CandidateIdx :
         /\ last.result.chosen = processors[i].name
         /\ last.result.details.processor = processors[i]
         /\ \A j \in CandidateIdx :
              /\ processors[j].success_rate <= processors[i].success_rate
              /\ j < i => processors[j].success_rate < processors[i].success_rate

(* a fallback among two candidates of equal, maximal success_rate: the     *)
(* earlier one is chosen                                                   *)
C3_Witness ==
  /\ OnFallbackPath
  /\ Healthy
  /\ \E i, j \in CandidateIdx :
       /\ i < j
       /\ processors[i].success_rate = processors[j].success_rate
       /\ last.result.chosen = processors[i].name
       /\ \E k \in CandidateIdx :
            processors[k].success_rate < processors[i].success_rate

(* C4: when some candidate passes the strict constraints, chosen is the    *)
(* viable candidate of maximum score (its score is >= every other viable   *)
(* candidate's, none is strictly greater), the first of the catalog among  *)
(* equals, and the reason states its score.  Stated over catalogs that     *)
(* hold the baseline and complete rule configurations.                     *)
C4_WinnerHasMaxScore ==
  (Called /\ HasStripe(processors) /\ RulesComplete /\ ViableIdx # {}) =>
    /\ OnScoringPath
    /\ \E i \in ViableIdx :
         /\ last.result.chosen = processors[i].name
         /\ last.result.reason.score = ToFixed3(ScoreAt(i))
         /\ \A j \in ViableIdx \ {i} :
              /\ ScoreGreater(i, j) \/ ScoreEqual(i, j)
              /\ ~ScoreGreater(j, i)
              /\ j < i => ScoreGreater(i, j)

(* C5 (as stated): the chosen processor of every decision has              *)
(* success_rate >= min_success_rate.  Stated over healthy configurations.  *)
C5_ChosenMeetsMinSuccessRate ==
  (Decided /\ Healthy) =>
    last.result.details.processor.success_rate
      >= rules.rule_thresholds.min_success_rate

(* C5 (amended): the chosen processor of every decision selected by        *)
(* scoring has success_rate >= min_success_rate.                           *)
C5_ScoringMeetsMinSuccessRate ==
  OnScoringPath =>
    /\ "min_success_rate" \in DOMAIN rules.rule_thresholds
    /\ last.result.details.processor.success_rate
         >= rules.rule_thresholds.min_success_rate
    /\ \E i \in CandidateIdx :
         last.result.details.processor = processors[i]

(* a scoring decision taken while a candidate below min_success_rate was   *)
(* in the catalog                                                          *)
C5_Witness ==
  /\ OnScoringPath
  /\ Healthy
  /\ \E i \in CandidateIdx :
       /\ processors[i].success_rate < rules.rule_thresholds.min_success_rate
       /\ ~NotWhitelisted(processors[i], last.payment)
       /\ last.result.chosen # processors[i].name

C7_ConfigurationFailureRaises ==
  (Called /\ (~HasStripe(processors) \/ ~RulesComplete)) =>
    last.result.kind = "error"

(* C8: when the baseline fee is 0 the saving is 0 and the score is finite  *)
(* in the returned decision.                                               *)
C8_ZeroBaselineFeeIsFinite ==
  (Decided /\ BaselineFee = 0 /\ RulesComplete) =>
    /\ last.result.details.saving_pct_vs_stripe = Fin(0, 1)
    /\ last.result.details.score.kind = "num"

C10_ExpectedNetIsAmountMinusFee ==
  Decided =>
    /\ last.result.expected_net_cents
         = last.payment.amount_cents - last.result.details.fee_cents
    /\ last.result.details.processor.name = last.result.chosen
    /\ \E i \in CandidateIdx :
         /\ processors[i] = last.result.details.processor
         /\ last.result.details.fee_cents
              = feeAmountCents(processors[i], last.payment)

(* a fallback decision for a payment with a percentage fee and a flat fee *)
C10_Witness ==
  /\ OnFallbackPath
  /\ Healthy
  /\ last.payment.amount_cents > 0
  /\ last.result.details.fee_cents
       > last.result.details.processor.fee_flat_cents
  /\ last.result.details.processor.fee_flat_cents > 0
  /\ last.result.expected_net_cents < last.payment.amount_cents

(* C11: every decision, fallback decisions included, names as chosen a     *)
(* processor that is an entry of the catalog and supports the requested    *)
(* method (supports_card true for "card", supports_ach true for "ach");    *)
(* a catalog entry that does not support the method is never the chosen    *)
(* one.                                                                    *)
C11_ChosenSupportsMethod ==
  Decided =>
    LET method == last.payment.payment_method
        Offers(p) ==
          \/ method = "card" /\ "supports_card" \in DOMAIN p
                /\ p.supports_card = TRUE
          \/ method = "ach" /\ "supports_ach" \in DOMAIN p
                /\ p.supports_ach = TRUE
    IN /\ \E i \in 1..Len(processors) :
            /\ processors[i] = last.result.details.processor
            /\ processors[i].name = last.result.chosen
       /\ \A i \in 1..Len(processors) :
            processors[i].name = last.result.chosen => Offers(processors[i])

(* a fallback decision for a card payment while the catalog holds an       *)
(* ach-only processor whose success_rate exceeds the chosen processor's    *)
C11_Witness ==
  /\ OnFallbackPath
  /\ Healthy
  /\ last.payment.payment_method = "card"
  /\ \E i \in 1..Len(processors) :
       /\ ~processors[i].supports_card
       /\ processors[i].success_rate
            > last.result.details.processor.success_rate

=============================================================================
